---- MODULE Spec2Model ----
(***************************************************************************)
(* Model of 004-postgres-client/query_users.py: a script that sleeps,      *)
(* connects to Postgres, runs SELECT * FROM users, prints a header and     *)
(* every row, then closes the cursor and the connection.                   *)
(*                                                                         *)
(* pc names the statement about to run.  Every library call either         *)
(* returns or raises; the script has no try/except, so a raised exception  *)
(* ends the process with exit status 1.  cur.close() on a client-side      *)
(* cursor and conn.close() only release local state and do not raise.      *)
(* The users table lives in the server and may be changed by other         *)
(* clients at any moment (TableChange).                                    *)
(***************************************************************************)
EXTENDS Integers, Sequences, FiniteSets, TLC

VARIABLES
    pc,            \* statement about to run, or "done" / "aborted"
    clock,         \* wall-clock seconds since the process started
    wake,          \* deadline of the running time.sleep, -1 before the call
    table,         \* server: rows of users, in the order a scan returns them
    envChanges,    \* server: number of changes made by other clients
    connState,     \* conn: "none" | "open" | "closed"
    curState,      \* cur:  "none" | "open" | "closed"
    resultSet,     \* result of the last execute, held by the cursor
    rows,          \* the script's variable rows
    i,             \* position of the for loop's iterator in rows
    stdout,        \* lines written to standard output
    exitStatus,    \* -1 while running, then the process exit status
    failedAt,      \* statement whose call raised, or "none"
    log,           \* history: calls performed so far, with their outcome
    tableAtQuery,  \* history: table at the moment execute ran
    envAtQuery,    \* history: envChanges at the moment execute ran
    run,           \* number of the current run of the script
    prevStdout,    \* stdout of the previous run
    prevExit,      \* exit status of the previous run
    prevEnvAtQuery \* envAtQuery of the previous run

ctl   == <<pc, exitStatus, failedAt, log>>
timev == <<clock, wake>>
db    == <<table, envChanges>>
res   == <<connState, curState>>
data  == <<resultSet, rows, i, stdout>>
ghost == <<tableAtQuery, envAtQuery>>
hist  == <<run, prevStdout, prevExit, prevEnvAtQuery>>
vars  == <<ctl, timev, db, res, data, ghost, hist>>

----------------------------------------------------------------------------
\* Bounds of the model

MaxRows == 2
MaxEnvChanges == 1
MaxStartDelay == 1
MaxOversleep == 1

\* Program constants

SleepSecs == 5
Header == "Users in the database:"

----------------------------------------------------------------------------
\* Data

RowValues == {<<1, "alice">>, <<2, "bob">>}

RECURSIVE SeqsUpTo(_, _)
SeqsUpTo(S, n) ==
    IF n = 0 THEN {<<>>}
    ELSE LET shorter == SeqsUpTo(S, n - 1)
         IN  shorter \cup {Append(s, x) : s \in {t \in shorter : Len(t) = n - 1}, x \in S}

Tables == SeqsUpTo(RowValues, MaxRows)

\* str(row) for a row (id, name): Python renders the tuple as "(1, 'alice')"
RowStr(row) == "(" \o ToString(row[1]) \o ", '" \o row[2] \o "')"

\* Calls that can raise
CanFail == {"import", "sleep", "connect", "cursor", "execute", "fetchall",
            "print_header", "print_row"}

Outcomes(op) == IF op \in CanFail THEN BOOLEAN ELSE {TRUE}

\* Mutant: the script ends after cur.close(), conn.close() is missing
NextPc_noConnClose(op) ==
    CASE op = "import"       -> "sleep"
      [] op = "sleep"        -> "connect"
      [] op = "connect"      -> "cursor"
      [] op = "cursor"       -> "execute"
      [] op = "execute"      -> "fetchall"
      [] op = "fetchall"     -> "print_header"
      [] op = "print_header" -> "for"
      [] op = "print_row"    -> "for"
      [] op = "for"          -> "cur_close"
      [] op = "cur_close"    -> "done"
      [] op = "conn_close"   -> "done"

\* Mutant: the header is printed before connecting
NextPc_headerFirst(op) ==
    CASE op = "import"       -> "sleep"
      [] op = "sleep"        -> "print_header"
      [] op = "print_header" -> "connect"
      [] op = "connect"      -> "cursor"
      [] op = "cursor"       -> "execute"
      [] op = "execute"      -> "fetchall"
      [] op = "fetchall"     -> "for"
      [] op = "print_row"    -> "for"
      [] op = "for"          -> "cur_close"
      [] op = "cur_close"    -> "conn_close"
      [] op = "conn_close"   -> "done"

\* Mutant: conn.close() is written before cur.close()
NextPc_connCloseFirst(op) ==
    CASE op = "import"       -> "sleep"
      [] op = "sleep"        -> "connect"
      [] op = "connect"      -> "cursor"
      [] op = "cursor"       -> "execute"
      [] op = "execute"      -> "fetchall"
      [] op = "fetchall"     -> "print_header"
      [] op = "print_header" -> "for"
      [] op = "print_row"    -> "for"
      [] op = "for"          -> "conn_close"
      [] op = "conn_close"   -> "cur_close"
      [] op = "cur_close"    -> "done"

\* Statement order of the script
NextPc(op) ==
    CASE op = "import"       -> "sleep"
      [] op = "sleep"        -> "connect"
      [] op = "connect"      -> "cursor"
      [] op = "cursor"       -> "execute"
      [] op = "execute"      -> "fetchall"
      [] op = "fetchall"     -> "print_header"
      [] op = "print_header" -> "for"
      [] op = "print_row"    -> "for"
      [] op = "for"          -> "cur_close"
      [] op = "cur_close"    -> "conn_close"
      [] op = "conn_close"   -> "done"

Phase(p) ==
    CASE p = "import" -> "Start"
      [] p = "sleep" -> "Sleeping"
      [] p = "connect" -> "Connecting"
      [] p \in {"cursor", "execute", "fetchall"} -> "Querying"
      [] p \in {"print_header", "for", "print_row"} -> "Printing"
      [] p \in {"cur_close", "conn_close"} -> "Closing"
      [] p = "done" -> "Done"
      [] p = "aborted" -> "Aborted"

Terminated == pc \in {"done", "aborted"}

----------------------------------------------------------------------------
\* Control flow shared by all statements

\* The call of statement op returned: go on to the next statement; falling
\* off the end of the script exits with status 0.
Advance(op) ==
    /\ pc' = NextPc(op)
    /\ exitStatus' = IF NextPc(op) = "done" THEN 0 ELSE exitStatus
    /\ log' = Append(log, [op |-> op, ok |-> TRUE, at |-> clock])
    /\ UNCHANGED failedAt

\* Mutant: a finally block runs the close calls after an exception
Raise_finally(op) ==
    /\ pc' = "cur_close"
    /\ exitStatus' = exitStatus
    /\ failedAt' = op
    /\ log' = Append(log, [op |-> op, ok |-> FALSE, at |-> clock])

\* Mutant: a failed statement is tried again
Raise_retry(op) ==
    /\ pc' = op
    /\ exitStatus' = exitStatus
    /\ failedAt' = op
    /\ log' = Append(log, [op |-> op, ok |-> FALSE, at |-> clock])

\* Mutant: the exception is swallowed and the process exits with status 0
Raise_exit0(op) ==
    /\ pc' = "aborted"
    /\ exitStatus' = 0
    /\ failedAt' = op
    /\ log' = Append(log, [op |-> op, ok |-> FALSE, at |-> clock])

\* The call of statement op raised: nothing catches it, the interpreter
\* prints the traceback to stderr and exits with status 1.
Raise(op) ==
    /\ pc' = "aborted"
    /\ exitStatus' = 1
    /\ failedAt' = op
    /\ log' = Append(log, [op |-> op, ok |-> FALSE, at |-> clock])

----------------------------------------------------------------------------
Init ==
    /\ pc = "import"
    /\ clock = 0
    /\ wake = -1
    /\ table \in Tables
    /\ envChanges = 0
    /\ connState = "none"
    /\ curState = "none"
    /\ resultSet = <<>>
    /\ rows = <<>>
    /\ i = 1
    /\ stdout = <<>>
    /\ exitStatus = -1
    /\ failedAt = "none"
    /\ log = <<>>
    /\ tableAtQuery = <<>>
    /\ envAtQuery = 0
    /\ run = 1
    /\ prevStdout = <<>>
    /\ prevExit = -1
    /\ prevEnvAtQuery = 0

\* import psycopg2; import time
Import ==
    /\ pc = "import"
    /\ \E ok \in Outcomes("import") :
         IF ok THEN Advance("import") ELSE Raise("import")
    /\ UNCHANGED <<timev, db, res, data, ghost, hist>>

\* time.sleep(5) is called
SleepCall ==
    /\ pc = "sleep"
    /\ wake = -1
    /\ wake' = clock + SleepSecs
    /\ log' = Append(log, [op |-> "sleep_call", ok |-> TRUE, at |-> clock])
    /\ UNCHANGED <<pc, exitStatus, failedAt, clock, db, res, data, ghost, hist>>

\* Mutant: the sleep returns without waiting for its deadline
SleepReturn_early ==
    /\ pc = "sleep"
    /\ wake # -1
    /\ Advance("sleep")
    /\ UNCHANGED <<timev, db, res, data, ghost, hist>>

\* time.sleep(5) returns once the deadline has passed
SleepReturn ==
    /\ pc = "sleep"
    /\ wake # -1
    /\ clock >= wake
    /\ Advance("sleep")
    /\ UNCHANGED <<timev, db, res, data, ghost, hist>>

\* time.sleep(5) is interrupted (KeyboardInterrupt)
SleepInterrupt ==
    /\ pc = "sleep"
    /\ wake # -1
    /\ FALSE \in Outcomes("sleep")
    /\ Raise("sleep")
    /\ UNCHANGED <<timev, db, res, data, ghost, hist>>

\* One second passes while the process starts or sleeps
Tick ==
    /\ \/ pc = "import" /\ clock < MaxStartDelay
       \/ pc = "sleep" /\ wake # -1 /\ clock < wake + MaxOversleep
    /\ clock' = clock + 1
    /\ UNCHANGED <<ctl, wake, db, res, data, ghost, hist>>

\* conn = psycopg2.connect(...)
Connect ==
    /\ pc = "connect"
    /\ \E ok \in Outcomes("connect") :
         IF ok THEN Advance("connect") /\ connState' = "open"
               ELSE Raise("connect") /\ UNCHANGED connState
    /\ UNCHANGED <<timev, db, curState, data, ghost, hist>>

\* cur = conn.cursor()
Cursor ==
    /\ pc = "cursor"
    /\ \E ok \in Outcomes("cursor") :
         IF ok THEN Advance("cursor") /\ curState' = "open"
               ELSE Raise("cursor") /\ UNCHANGED curState
    /\ UNCHANGED <<timev, db, connState, data, ghost, hist>>

\* Mutant: the statement is DELETE FROM users RETURNING *
Execute_delete ==
    /\ pc = "execute"
    /\ \E ok \in Outcomes("execute") :
         IF ok THEN /\ Advance("execute")
                    /\ resultSet' = table
                    /\ table' = <<>>
                    /\ tableAtQuery' = table
                    /\ envAtQuery' = envChanges
               ELSE Raise("execute") /\ UNCHANGED <<resultSet, ghost, table>>
    /\ UNCHANGED <<timev, envChanges, res, rows, i, stdout, hist>>

\* cur.execute("SELECT * FROM users"): the server scans the table and the
\* client-side cursor receives the whole result; the table is only read.
Execute ==
    /\ pc = "execute"
    /\ \E ok \in Outcomes("execute") :
         IF ok THEN /\ Advance("execute")
                    /\ resultSet' = table
                    /\ tableAtQuery' = table
                    /\ envAtQuery' = envChanges
               ELSE Raise("execute") /\ UNCHANGED <<resultSet, ghost>>
    /\ UNCHANGED <<timev, db, res, rows, i, stdout, hist>>

\* Mutant: rows = cur.fetchmany(), which returns at most arraysize = 1 row
Fetchall_one ==
    /\ pc = "fetchall"
    /\ \E ok \in Outcomes("fetchall") :
         IF ok THEN Advance("fetchall") /\ rows' = SubSeq(resultSet, 1, IF resultSet = <<>> THEN 0 ELSE 1)
               ELSE Raise("fetchall") /\ UNCHANGED rows
    /\ UNCHANGED <<timev, db, res, resultSet, i, stdout, ghost, hist>>

\* rows = cur.fetchall()
Fetchall ==
    /\ pc = "fetchall"
    /\ \E ok \in Outcomes("fetchall") :
         IF ok THEN Advance("fetchall") /\ rows' = resultSet
               ELSE Raise("fetchall") /\ UNCHANGED rows
    /\ UNCHANGED <<timev, db, res, resultSet, i, stdout, ghost, hist>>

\* print("Users in the database:")
PrintHeader ==
    /\ pc = "print_header"
    /\ \E ok \in Outcomes("print_header") :
         IF ok THEN Advance("print_header") /\ stdout' = Append(stdout, Header)
               ELSE Raise("print_header") /\ UNCHANGED stdout
    /\ UNCHANGED <<timev, db, res, resultSet, rows, i, ghost, hist>>

\* for row in rows: the iterator yields the next row or the loop ends
ForNext ==
    /\ pc = "for"
    /\ pc' = IF i <= Len(rows) THEN "print_row" ELSE NextPc("for")
    /\ UNCHANGED <<exitStatus, failedAt, log, timev, db, res, data, ghost, hist>>

\* Mutant: the loop is for row in reversed(rows)
PrintRow_reversed ==
    /\ pc = "print_row"
    /\ \E ok \in Outcomes("print_row") :
         IF ok THEN /\ Advance("print_row")
                    /\ stdout' = Append(stdout, RowStr(rows[Len(rows) + 1 - i]))
                    /\ i' = i + 1
               ELSE Raise("print_row") /\ UNCHANGED <<stdout, i>>
    /\ UNCHANGED <<timev, db, res, resultSet, rows, ghost, hist>>

\* print(row)
PrintRow ==
    /\ pc = "print_row"
    /\ \E ok \in Outcomes("print_row") :
         IF ok THEN /\ Advance("print_row")
                    /\ stdout' = Append(stdout, RowStr(rows[i]))
                    /\ i' = i + 1
               ELSE Raise("print_row") /\ UNCHANGED <<stdout, i>>
    /\ UNCHANGED <<timev, db, res, resultSet, rows, ghost, hist>>

\* cur.close()
CurClose ==
    /\ pc = "cur_close"
    /\ Advance("cur_close")
    /\ curState' = "closed"
    /\ UNCHANGED <<timev, db, connState, data, ghost, hist>>

\* conn.close()
ConnClose ==
    /\ pc = "conn_close"
    /\ Advance("conn_close")
    /\ connState' = "closed"
    /\ UNCHANGED <<timev, db, curState, data, ghost, hist>>

\* Another client of the server inserts, deletes, updates or reorders rows
TableChange ==
    /\ envChanges < MaxEnvChanges
    /\ \E t \in Tables \ {table} : table' = t
    /\ envChanges' = envChanges + 1
    /\ UNCHANGED <<ctl, timev, res, data, ghost, hist>>

\* The script is started a second time after the first process has exited
NewRun ==
    /\ Terminated
    /\ run = 1
    /\ run' = run + 1
    /\ prevStdout' = stdout
    /\ prevExit' = exitStatus
    /\ prevEnvAtQuery' = envAtQuery
    /\ pc' = "import"
    /\ clock' = 0
    /\ wake' = -1
    /\ connState' = "none"
    /\ curState' = "none"
    /\ resultSet' = <<>>
    /\ rows' = <<>>
    /\ i' = 1
    /\ stdout' = <<>>
    /\ exitStatus' = -1
    /\ failedAt' = "none"
    /\ log' = <<>>
    /\ tableAtQuery' = <<>>
    /\ envAtQuery' = 0
    /\ UNCHANGED db

Step ==
    \/ Import
    \/ SleepCall
    \/ SleepReturn
    \/ SleepInterrupt
    \/ Connect
    \/ Cursor
    \/ Execute
    \/ Fetchall
    \/ PrintHeader
    \/ ForNext
    \/ PrintRow
    \/ CurClose
    \/ ConnClose

Next == Step \/ Tick \/ TableChange

\* One run of the script
Spec == Init /\ [][Next]_vars

\* One run of a single-threaded process whose blocking calls all return or
\* raise, and in which time passes
LiveSpec == Spec /\ WF_vars(Step) /\ WF_vars(Tick)

\* Successive runs of the script against the same server
NextRuns == Next \/ NewRun

SpecRuns == Init /\ [][NextRuns]_vars

----------------------------------------------------------------------------
\* Properties

\* Positions of the log at which statement op was performed
Calls(op) == {k \in DOMAIN log : log[k].op = op}

\* Statement op was performed and returned
Completed(op) == \E k \in Calls(op) : log[k].ok

\* The output of a successful run over the result t of the query
Expected(t) == <<Header>> \o [k \in 1..Len(t) |-> RowStr(t[k])]

IsPrefix(s, t) == Len(s) <= Len(t) /\ \A k \in 1..Len(s) : s[k] = t[k]

LaterFailure ==
    failedAt \in {"cursor", "execute", "fetchall", "print_header", "print_row"}

\* C1: in a run that opens the connection and in which no later step fails,
\* conn.close() is performed exactly once, as the last action of the run, no
\* connection is open at Done, and the run does get there.
C1_ClosedOnceState ==
    /\ Cardinality(Calls("conn_close")) <= 1
    /\ (connState = "closed") <=> (Calls("conn_close") # {})
    /\ pc = "done" => connState = "closed"
    /\ (Terminated /\ connState # "none" /\ ~LaterFailure) =>
           /\ pc = "done"
           /\ connState = "closed"
           /\ Cardinality(Calls("conn_close")) = 1
           /\ log[Len(log)].op = "conn_close"

C1_ClosedExactlyOnce ==
    /\ []C1_ClosedOnceState
    /\ (connState = "open") ~> (connState = "closed" \/ LaterFailure)

C1_Witness ==
    /\ pc = "done"
    /\ connState = "closed"
    /\ Len(stdout) = 3
    /\ log[Len(log)].op = "conn_close"

\* C2: when connect, execute or fetchall fails the run ends with a non-zero
\* exit status and empty standard output; anything is printed only after
\* fetchall has succeeded.
C2_NoOutputOnFailure ==
    /\ failedAt \in {"connect", "execute", "fetchall"} =>
           /\ pc = "aborted"
           /\ exitStatus > 0
           /\ stdout = <<>>
    /\ stdout # <<>> => Completed("fetchall")

C2_Witness ==
    /\ failedAt = "fetchall"
    /\ pc = "aborted"
    /\ Len(resultSet) = 2

\* C3: on a successful run standard output is exactly the header followed by
\* one line per row in the order the server returned them; at every moment
\* the output is a prefix of that text.
C3_ExactOutput ==
    /\ IsPrefix(stdout, Expected(tableAtQuery))
    /\ pc = "done" => stdout = Expected(tableAtQuery)

C3_Witness ==
    /\ pc = "done"
    /\ tableAtQuery = << <<2, "bob">>, <<1, "alice">> >>
    /\ stdout = <<"Users in the database:", "(2, 'bob')", "(1, 'alice')">>

\* C4: on a successful run the number of data lines equals the number of
\* rows the table held when the query ran, whatever happened to the table
\* afterwards.
C4_Completeness ==
    pc = "done" => Len(stdout) - 1 = Len(tableAtQuery)

C4_Witness ==
    /\ pc = "done"
    /\ Len(tableAtQuery) = 2
    /\ Len(table) < 2
    /\ envChanges > envAtQuery

\* C5: when execute or fetchall fails on an open connection the run aborts
\* at once: neither close call is performed, connection and cursor stay
\* open, and the failing call is the last thing the program did.
C5_NoCleanupOnFailure ==
    failedAt \in {"execute", "fetchall"} =>
        /\ pc = "aborted"
        /\ connState = "open"
        /\ curState = "open"
        /\ Calls("cur_close") = {}
        /\ Calls("conn_close") = {}
        /\ log[Len(log)].op = failedAt
        /\ ~log[Len(log)].ok

C5_Witness ==
    /\ failedAt = "execute"
    /\ pc = "aborted"
    /\ connState = "open"

PhaseOrder ==
    { <<"Start", "Sleeping">>, <<"Sleeping", "Connecting">>,
      <<"Connecting", "Querying">>, <<"Querying", "Printing">>,
      <<"Printing", "Closing">>, <<"Closing", "Done">> }

\* C6: the phase only moves to its immediate successor or, on a failure, to
\* abort; nothing follows Done or abort; connect and execute are attempted
\* at most once; a failure aborts in the same step.
C6_PhaseStep ==
    /\ \/ Phase(pc') = Phase(pc)
       \/ <<Phase(pc), Phase(pc')>> \in PhaseOrder
       \/ /\ Phase(pc') = "Aborted"
          /\ Phase(pc) \notin {"Done", "Aborted"}
          /\ failedAt' # "none"
    /\ failedAt' # failedAt => pc' = "aborted" /\ failedAt = "none"

C6_LinearPhases ==
    /\ [][C6_PhaseStep]_vars
    /\ [](Cardinality(Calls("connect")) <= 1 /\ Cardinality(Calls("execute")) <= 1)

C6_Witness ==
    /\ pc = "done"
    /\ Completed("connect")
    /\ Completed("execute")
    /\ Cardinality(Calls("print_row")) = 2

\* C7: every connect call is preceded by a sleep that was called and
\* returned at least 5 seconds later.
C7_FixedDelay ==
    \A c \in Calls("connect") :
        \E a, b \in 1..(c - 1) :
            /\ a < b
            /\ log[a].op = "sleep_call"
            /\ log[b].op = "sleep" /\ log[b].ok
            /\ log[b].at - log[a].at >= 5
            /\ log[c].at >= log[b].at

C7_Witness ==
    \E c \in Calls("connect") : log[c].at = 5

\* C8: every run terminates; its exit status is 0 exactly when every step
\* completed and is non-zero after any failure.
AllCompleted ==
    /\ failedAt = "none"
    /\ \A op \in {"sleep", "connect", "cursor", "execute", "fetchall",
                  "print_header", "cur_close", "conn_close"} : Completed(op)
    /\ Cardinality({k \in Calls("print_row") : log[k].ok}) = Len(rows)

C8_ExitState ==
    /\ Terminated => (exitStatus = 0 <=> AllCompleted)
    /\ Terminated <=> exitStatus # -1
    /\ failedAt # "none" => Terminated /\ exitStatus > 0

C8_ExitStatus ==
    /\ <>Terminated
    /\ []C8_ExitState

C8_Witness ==
    /\ pc = "aborted"
    /\ failedAt = "print_row"
    /\ exitStatus = 1
    /\ Len(stdout) = 2

\* C9: a run changes nothing in the table, and a successful run that follows
\* a successful run with no change of the table in between prints the same
\* output.
C9_SameOutput ==
    (/\ run >= 2
     /\ pc = "done"
     /\ prevExit = 0
     /\ prevEnvAtQuery = envAtQuery) => stdout = prevStdout

C9_Idempotence ==
    /\ []C9_SameOutput
    /\ [][envChanges' = envChanges => table' = table]_vars

C9_Witness ==
    /\ run = 2
    /\ pc = "done"
    /\ prevExit = 0
    /\ prevEnvAtQuery = envAtQuery
    /\ Len(stdout) = 3
    /\ stdout = prevStdout

\* C10: the cursor is created on an open connection and closed before the
\* connection is; every call on the cursor or the connection, and every
\* print, happens while what it uses is open.
C10_Step ==
    /\ (curState = "none" /\ curState' # "none") => connState = "open"
    /\ (connState # "closed" /\ connState' = "closed") => curState = "closed"
    /\ (pc' # pc /\ pc \in {"execute", "fetchall", "cur_close"}) =>
           curState = "open" /\ connState = "open"
    /\ (pc' # pc /\ pc \in {"cursor", "conn_close"}) => connState = "open"
    /\ stdout' # stdout => connState = "open" /\ connState' = "open"

C10_Lifecycle ==
    /\ [][C10_Step]_vars
    /\ [](connState = "closed" => curState = "closed")
    /\ [](curState # "none" => connState # "none")

C10_Witness ==
    /\ connState = "closed"
    /\ curState = "closed"
    /\ Len(stdout) = 3

====
